---- MODULE Spec2Model ----
(***************************************************************************)
(* Model of the orchestration core of the marketing-automation backend:    *)
(*   - ContentAgent.generate_monthly  (src/agents/content_agent.py)        *)
(*   - get_monthly_template           (src/agents/prompt_templates.py)     *)
(*   - CampaignOrchestrator           (src/app/agents/campaign_orchestrator.py) *)
(*   - the five Sub-Agents            (src/app/agents/*_agent.py)          *)
(*                                                                         *)
(* The hosted model, the vector store and the worker threads are the       *)
(* environment: every outcome they can hand back to the code is drawn      *)
(* nondeterministically from a small set.                                  *)
(***************************************************************************)
EXTENDS Integers, Sequences, FiniteSets, TLC

(***************************************************************************)
(* JSON values and model text                                              *)
(*                                                                         *)
(* A JSON value is a record [kind, fields, days, text]:                    *)
(*   kind   "dict" | "list" | "scalar" | "none"                            *)
(*   fields for a dict, the set of <<key, value tag>> pairs it holds       *)
(*   days   the day records of a dict's "days" list, or a list's items     *)
(*   text   for a dict, the characters of one string value it holds,       *)
(*          written out token by token (<<>>: no such value)               *)
(* A text is a sequence of tokens [t, v]; v is the JSON value a "body" or  *)
(* "items" token stands for and NoJson for every other token.  "fence" is  *)
(* three backticks, "fence_json" three backticks and json, "tick" one      *)
(* backtick.  An "items" token stands for list items that hold no brace,   *)
(* or for two or more objects: the texts drawn below hold no other list.   *)
(***************************************************************************)
NoJson == [kind |-> "none", fields |-> {}, days |-> <<>>, text |-> <<>>]

JDict(fields, days) ==
    [kind |-> "dict", fields |-> fields, days |-> days, text |-> <<>>]

JDictText(fields, days, text) ==
    [kind |-> "dict", fields |-> fields, days |-> days, text |-> text]

JList(items) == [kind |-> "list", fields |-> {}, days |-> items, text |-> <<>>]

JScalar == [kind |-> "scalar", fields |-> {}, days |-> <<>>, text |-> <<>>]

Tok(t) == [t |-> t, v |-> NoJson]

FENCE == Tok("fence")

FENCE_JSON == Tok("fence_json")

TICK == Tok("tick")

WS == Tok(" ")

PROSE == Tok("prose")

LBRACE == Tok("{")

RBRACE == Tok("}")

LBRACKET == Tok("[")

RBRACKET == Tok("]")

SCALAR == Tok("42")

QUOTE == Tok("quote")

LETTER == Tok("a")

\* dict.get(key, default) on the value tags of a dict
HasKey(v, key) == \E p \in v.fields : p[1] = key

GetTag(v, key, default) ==
    IF HasKey(v, key) THEN (CHOOSE p \in v.fields : p[1] = key)[2] ELSE default

\* json.dumps: the text of a JSON value; a dict's string value is written
\* last, between quotes, the "body" token standing for all that precedes it
Dumps(v) ==
    CASE v.kind = "dict" /\ v.text # <<>> ->
            <<LBRACE, [t |-> "body", v |-> [v EXCEPT !.text = <<>>]], QUOTE>>
                \o v.text \o <<QUOTE, RBRACE>>
      [] v.kind = "dict" ->
            IF v.fields = {} THEN <<LBRACE, RBRACE>>
            ELSE <<LBRACE, [t |-> "body", v |-> v], RBRACE>>
      [] v.kind = "list" ->
            IF v.days = <<>> THEN <<LBRACKET, RBRACKET>>
            ELSE <<LBRACKET, [t |-> "items", v |-> v], RBRACKET>>
      [] OTHER -> <<SCALAR>>

\* json.loads: [ok, v]; ok is FALSE where json.loads raises JSONDecodeError
Loads(text) ==
    CASE text = <<LBRACE, RBRACE>> -> [ok |-> TRUE, v |-> JDict({}, <<>>)]
      [] text = <<LBRACKET, RBRACKET>> -> [ok |-> TRUE, v |-> JList(<<>>)]
      [] text = <<SCALAR>> -> [ok |-> TRUE, v |-> JScalar]
      [] Len(text) = 3 /\ text[1] = LBRACE /\ text[3] = RBRACE
            /\ text[2].t = "body" /\ text[2].v.kind = "dict" ->
            [ok |-> TRUE, v |-> text[2].v]
      [] Len(text) >= 4 /\ text[1] = LBRACE /\ text[Len(text)] = RBRACE
            /\ text[2].t = "body" /\ text[2].v.kind = "dict"
            /\ text[3] = QUOTE /\ text[Len(text) - 1] = QUOTE
            /\ \A i \in 4..(Len(text) - 2) :
                  text[i].t \notin {"quote", "body", "items"} ->
            [ok |-> TRUE,
             v |-> [text[2].v EXCEPT !.text = SubSeq(text, 4, Len(text) - 2)]]
      [] Len(text) = 3 /\ text[1] = LBRACKET /\ text[3] = RBRACKET
            /\ text[2].t = "items" /\ text[2].v.kind = "list" ->
            [ok |-> TRUE, v |-> text[2].v]
      [] OTHER -> [ok |-> FALSE, v |-> NoJson]

\* re.sub of the fence pattern (three backticks, optionally followed by json) by ""
RECURSIVE StripFences(_)
StripFences(text) ==
    IF text = <<>> THEN <<>>
    ELSE IF Head(text) \in {FENCE, FENCE_JSON} THEN StripFences(Tail(text))
    ELSE <<Head(text)>> \o StripFences(Tail(text))

\* str.lstrip / str.rstrip of one kind of token
RECURSIVE LStrip(_, _)
LStrip(text, tok) ==
    IF text # <<>> /\ Head(text) = tok THEN LStrip(Tail(text), tok) ELSE text

RECURSIVE RStrip(_, _)
RStrip(text, tok) ==
    IF text # <<>> /\ text[Len(text)] = tok
    THEN RStrip(SubSeq(text, 1, Len(text) - 1), tok)
    ELSE text

Strip(text) == RStrip(LStrip(text, WS), WS)

\* re.sub(...).strip().rstrip(backtick).strip()
Cleaned(raw) == Strip(RStrip(Strip(StripFences(raw)), TICK))

BraceMatchFirstClose(cleaned) ==
    LET opens == {i \in 1..Len(cleaned) : cleaned[i] = LBRACE}
        first == CHOOSE i \in opens : \A j \in opens : i <= j
        closes == {i \in 1..Len(cleaned) : cleaned[i] = RBRACE /\ i > first}
        last == CHOOSE i \in closes : \A j \in closes : i <= j
    IN  IF opens = {} THEN [found |-> FALSE, text |-> <<>>]
        ELSE IF closes = {} THEN [found |-> FALSE, text |-> <<>>]
        ELSE [found |-> TRUE, text |-> SubSeq(cleaned, first, last)]

\* re.search(r"\{.*\}", cleaned, re.DOTALL): first "{" to last "}" (greedy)
BraceMatch(cleaned) ==
    LET opens == {i \in 1..Len(cleaned) : cleaned[i] = LBRACE}
        first == CHOOSE i \in opens : \A j \in opens : i <= j
        closes == {i \in 1..Len(cleaned) : cleaned[i] = RBRACE /\ i > first}
        last == CHOOSE i \in closes : \A j \in closes : j <= i
    IN  IF opens = {} THEN [found |-> FALSE, text |-> <<>>]
        ELSE IF closes = {} THEN [found |-> FALSE, text |-> <<>>]
        ELSE [found |-> TRUE, text |-> SubSeq(cleaned, first, last)]

\* ContentAgent._extract_json: [ok, v]; ok FALSE stands for the ValueError
\* raised when neither the direct parse nor the brace match parses
ExtractJson(raw) ==
    LET cleaned == Cleaned(raw)
        direct == Loads(cleaned)
        m == BraceMatch(cleaned)
    IN  IF direct.ok THEN direct
        ELSE IF m.found THEN Loads(m.text)
        ELSE [ok |-> FALSE, v |-> NoJson]

\* Which of _extract_json's passes parses the reply
ExtractPass(raw) ==
    LET cleaned == Cleaned(raw)
        m == BraceMatch(cleaned)
    IN  IF Loads(cleaned).ok THEN "direct"
        ELSE IF m.found /\ Loads(m.text).ok THEN "brace"
        ELSE "none"

\* The forms in which a model writes a JSON value v into its reply
RawForms(v) ==
    { Dumps(v),
      <<FENCE_JSON, WS>> \o Dumps(v) \o <<WS, FENCE>>,
      <<FENCE, WS>> \o Dumps(v) \o <<WS, FENCE, TICK>>,
      <<PROSE, WS>> \o Dumps(v) \o <<WS, PROSE>> }

\* Replies that carry no JSON at all
GarbageTexts == { <<PROSE>>, <<PROSE, LBRACE, PROSE>>, <<>> }

(***************************************************************************)
(* ContentAgent.generate_monthly                                           *)
(***************************************************************************)
TOTAL_DAYS == 30

DAYS_PER_BATCH == 5

VALID_TEMPLATE_TYPES == {"educational", "problem_solution", "trust_story"}

\* At most MaxFaults windows of one run leave the nominal path (the first
\* call returning the day list its schema asks for).
MaxFaults == 2

\* The content_types lists a caller passes (src/routes/campaign.py names
\* "image", "carousel", "video_script"); the empty list is an input error.
ContentTypeLists ==
    { <<"carousel", "video_script">>,
      <<"image", "carousel", "video_script">>,
      <<>> }

TemplateTypeInputs == {"educational", "bogus"}

Min(a, b) == IF a <= b THEN a ELSE b

\* Lines 242, 245, 246 as functions of the two module constants
NumBatchesOf(total, size) == (total + size - 1) \div size

DayStartOf(b, size) == b * size + 1

DayEndOfUncapped(b, total, size) == DayStartOf(b, size) + size - 1

DayEndOf(b, total, size) == Min(DayStartOf(b, size) + size - 1, total)

NumBatches == NumBatchesOf(TOTAL_DAYS, DAYS_PER_BATCH)

DayStart(b) == DayStartOf(b, DAYS_PER_BATCH)

DayEnd(b) == DayEndOf(b, TOTAL_DAYS, DAYS_PER_BATCH)

\* ct_index of generate_monthly (0-based, as in the source)
MonthlyCtIndex(day, types) == (day - 1) % Len(types)

\* The "- Day {day}: {ct}" lines generate_monthly builds, one record a line
DayAssignmentLines(types, ds, de) ==
    [i \in 1..(de - ds + 1) |->
        [day |-> ds + i - 1, ct |-> types[MonthlyCtIndex(ds + i - 1, types) + 1]]]

\* _build_day_schema: the day number and the content_type the schema
\* fragment names; the fragment's remaining keys follow from content_type
BuildDaySchemaVerbatim(day, content_type) ==
    [day |-> day, content_type |-> content_type]

BuildDaySchema(day, content_type) ==
    IF content_type \in {"image", "canonical_post"}
    THEN [day |-> day, content_type |-> "canonical_post"]
    ELSE IF content_type = "carousel"
    THEN [day |-> day, content_type |-> "carousel"]
    ELSE IF content_type = "video_script"
    THEN [day |-> day, content_type |-> "video_script"]
    ELSE [day |-> day, content_type |-> "canonical_post"]

\* ct_index of get_monthly_template
TemplateCtIndexShifted(day, types) == day % Len(types)

TemplateCtIndex(day, types) == (day - 1) % Len(types)

\* get_monthly_template: the strategy it selects, the day_assignments lines
\* it builds locally and the day_schema it returns with the prompt
GetMonthlyTemplate(tt, types, ds, de) ==
    [strategy |->
        IF tt \in {"educational", "problem_solution", "trust_story"}
        THEN tt ELSE "educational",
     day_assignments |->
        [i \in 1..(de - ds + 1) |->
            [day |-> ds + i - 1,
             ct |-> types[TemplateCtIndex(ds + i - 1, types) + 1]]],
     day_schema |->
        [i \in 1..(de - ds + 1) |->
            BuildDaySchema(ds + i - 1,
                           types[TemplateCtIndex(ds + i - 1, types) + 1])]]

\* ContentAgent._get_context on the outcomes of vector_db.search
GetContext(outcome) ==
    CASE outcome = "chunks" -> "chunks"
      [] outcome = "no_results" -> "No past content available for this brand."
      [] outcome = "blank_texts" -> "No past content available."
      [] OTHER -> "Context retrieval failed - generating without past content."

SearchOutcomes == {"chunks", "no_results", "blank_texts", "raises"}

\* A calendar entry: error = "" stands for an entry without an "error" key
Entry(day, ct, err) == [day |-> day, content_type |-> ct, error |-> err]

\* The placeholder entries generate_monthly appends for a failed batch
PlaceholdersShort(ds, de, reason) ==
    [i \in 1..(de - ds) |-> Entry(ds + i - 1, "error", reason)]

Placeholders(ds, de, reason) ==
    [i \in 1..(de - ds + 1) |-> Entry(ds + i - 1, "error", reason)]

\* The day list a schema asks for
FaithfulDays(schema) ==
    [i \in 1..Len(schema) |-> Entry(schema[i].day, schema[i].content_type, "")]

Reverse(s) == [i \in 1..Len(s) |-> s[Len(s) + 1 - i]]

\* Day lists the model may answer a window with: the one asked for, none,
\* the days in reverse order, a day twice
ModelDayLists(schema) ==
    LET f == FaithfulDays(schema)
    IN  { f, <<>>, Reverse(f), <<f[1]>> \o f }

DaysDict(days) == JDict({<<"days", "list">>}, days)

\* JSON values a window's generation may produce
ModelResults(schema) ==
    { DaysDict(l) : l \in ModelDayLists(schema) }
    \cup { JList(FaithfulDays(schema)),
           JDict({<<"days", "scalar">>}, <<>>),
           JDict({<<"note", "str">>}, <<>>),
           JScalar }

\* Raw replies of the fallback call: the record asked for, one without
\* days, a bare list, each in the four forms, or no JSON at all
ModelRawTexts(schema) ==
    UNION { RawForms(v) : v \in { DaysDict(FaithfulDays(schema)),
                                  DaysDict(<<>>),
                                  JList(FaithfulDays(schema)) } }
    \cup GarbageTexts

\* Lines 309-318: the days taken from batch_result; ok FALSE with the
\* exception the statements raise (.get on a non-mapping, len of a scalar)
ExtractDays(batch_result) ==
    IF batch_result.kind # "dict"
    THEN [ok |-> FALSE, days |-> <<>>, reason |-> "AttributeError"]
    ELSE IF ~HasKey(batch_result, "days")
    THEN [ok |-> TRUE, days |-> <<>>, reason |-> ""]
    ELSE IF GetTag(batch_result, "days", "list") = "list"
    THEN [ok |-> TRUE, days |-> batch_result.days, reason |-> ""]
    ELSE [ok |-> FALSE, days |-> <<>>, reason |-> "TypeError"]

VARIABLES
    content_types,   \* generate_monthly's content_types argument
    template_type,   \* its template_type argument
    pc,              \* where generate_monthly stands
    context,         \* the retrieved context
    batch_idx,       \* the loop variable
    invoke_inputs,   \* the current window's invoke_inputs
    tmpl,            \* what get_monthly_template built for the window
    all_days,        \* the accumulating calendar
    window_log,      \* history: how each finished window ended
    faults,          \* history: windows that left the nominal path
    result,          \* the returned record
    attempts,        \* the current window's model invocations, each "pending",
                     \* "returned", "raised" or "timeout"
    abandoned,       \* the calls left running on their worker after a timeout
    searches,        \* history: the outcomes of generate_monthly's vector_db.search calls
    ppc,             \* where run_pipeline stands
    stage,           \* the stage run_pipeline is at (1..5)
    scraped_context, \* run_pipeline's retrieved context
    outs,            \* competition_out .. positioning_out, by agent
    calls,           \* history: the Sub-Agent invocations and their arguments
    gen,             \* history: how each stage's generation ended, by agent
    saves,           \* history: the _save_to_memory attempts
    ai_brain,        \* the merged record run_pipeline returns
    psearches,       \* history: the outcomes of run_pipeline's vector_db.search calls
    npc,             \* the normalizer run: "input", "done" (or "idle")
    n_rec,           \* the record serialized into the reply
    n_form,          \* how the reply wraps the serialized record
    n_raw,           \* the reply text handed to _extract_json and _parse
    n_out,           \* what _extract_json returned ([ok, v], ok FALSE: ValueError)
    n_pass,          \* which pass of _extract_json parsed the reply
    n_parsed,        \* what CompetitionAgent._parse returned
    wpc,             \* the window split: "loop", "done" (or "idle")
    w_total,         \* the value of TOTAL_DAYS
    w_size,          \* the value of DAYS_PER_BATCH
    w_idx,           \* batch_idx
    w_windows,       \* history: the [day_start, day_end] of each iteration
    cpc,             \* where create_campaign stands (or "idle")
    g_next,          \* the next node of the campaign thread's last checkpoint
    g_content,       \* generated_content in the checkpoint
    g_result,        \* publish_result in the checkpoint
    g_runs,          \* history: the node executions [node, by, outcome]
    db_status,       \* the campaign's status column
    reqs             \* the publish_campaign requests, by number

mvars == <<content_types, template_type, pc, context, batch_idx,
           invoke_inputs, tmpl, all_days, window_log, faults, result,
           attempts, abandoned, searches>>

pvars == <<ppc, stage, scraped_context, outs, calls, gen, saves, ai_brain,
           psearches>>

nvars == <<npc, n_rec, n_form, n_raw, n_out, n_pass, n_parsed>>

wvars == <<wpc, w_total, w_size, w_idx, w_windows>>

gvars == <<cpc, g_next, g_content, g_result, g_runs, db_status, reqs>>

ovars == <<nvars, wvars, gvars>>

vars == <<mvars, pvars, ovars>>

NoInputs == [day_start |-> 0, day_end |-> 0, day_assignments |-> <<>>,
             day_schema |-> <<>>, context |-> ""]

NoTemplate == [strategy |-> "", day_assignments |-> <<>>, day_schema |-> <<>>]

NoResult == [template_type |-> "", total_days |-> 0 - 1, days |-> <<>>]

MInit ==
    /\ content_types \in ContentTypeLists
    /\ template_type \in TemplateTypeInputs
    /\ pc = "entry"
    /\ context = ""
    /\ batch_idx = 0
    /\ invoke_inputs = NoInputs
    /\ tmpl = NoTemplate
    /\ all_days = <<>>
    /\ window_log = <<>>
    /\ faults = 0
    /\ result = NoResult
    /\ attempts = <<>>
    /\ abandoned = {}
    /\ searches = <<>>

\* Lines 226-231: an invalid template_type raises ValueError
EntryInvalidTemplate ==
    /\ pc = "entry"
    /\ template_type \notin VALID_TEMPLATE_TYPES
    /\ pc' = "raised"
    /\ UNCHANGED pvars
    /\ UNCHANGED ovars
    /\ UNCHANGED <<attempts, abandoned, searches>>
    /\ UNCHANGED <<content_types, template_type, context, batch_idx,
                   invoke_inputs, tmpl, all_days, window_log, faults, result>>

\* Lines 233-242: the one retrieval, then the empty calendar
EntryRetrieve ==
    /\ pc = "entry"
    /\ template_type \in VALID_TEMPLATE_TYPES
    /\ \E outcome \in SearchOutcomes :
         /\ context' = GetContext(outcome)
         /\ searches' = Append(searches, outcome)
    /\ all_days' = <<>>
    /\ batch_idx' = 0
    /\ pc' = "window"
    /\ UNCHANGED pvars
    /\ UNCHANGED ovars
    /\ UNCHANGED <<attempts, abandoned>>
    /\ UNCHANGED <<content_types, template_type, invoke_inputs, tmpl,
                   window_log, faults, result>>

WindowStartRaisesContained ==
    /\ pc = "window"
    /\ batch_idx < NumBatches
    /\ Len(content_types) = 0
    /\ all_days' = all_days \o Placeholders(DayStart(batch_idx),
                                           DayEnd(batch_idx), "ZeroDivisionError")
    /\ batch_idx' = batch_idx + 1
    /\ UNCHANGED pvars
    /\ UNCHANGED ovars
    /\ UNCHANGED <<attempts, abandoned, searches>>
    /\ UNCHANGED <<content_types, template_type, pc, context,
                   invoke_inputs, tmpl, window_log, faults, result>>

\* Lines 253: the modulo by len(content_types) of an empty list raises
\* ZeroDivisionError outside the batch's try
WindowStartRaises ==
    /\ pc = "window"
    /\ batch_idx < NumBatches
    /\ Len(content_types) = 0
    /\ pc' = "raised"
    /\ UNCHANGED pvars
    /\ UNCHANGED ovars
    /\ UNCHANGED <<attempts, abandoned, searches>>
    /\ UNCHANGED <<content_types, template_type, context, batch_idx,
                   invoke_inputs, tmpl, all_days, window_log, faults, result>>

\* Lines 264-274: the fields handed to the window's calls
InvokeInputsFreshContext(ds, de, t, ctx) ==
    [day_start |-> ds, day_end |-> de,
     day_assignments |-> DayAssignmentLines(content_types, ds, de),
     day_schema |-> t.day_schema,
     context |-> GetContext("no_results")]

InvokeInputs(ds, de, t, ctx) ==
    [day_start |-> ds, day_end |-> de,
     day_assignments |-> DayAssignmentLines(content_types, ds, de),
     day_schema |-> t.day_schema,
     context |-> ctx]

\* Lines 244-281: the window's bounds, assignments, template and
\* invoke_inputs, and the submission of the first call
WindowStart ==
    /\ pc = "window"
    /\ batch_idx < NumBatches
    /\ Len(content_types) > 0
    /\ LET ds == DayStart(batch_idx)
           de == DayEnd(batch_idx)
           t == GetMonthlyTemplate(template_type, content_types, ds, de)
       IN  /\ tmpl' = t
           /\ invoke_inputs' = InvokeInputs(ds, de, t, context)
    /\ attempts' = <<"pending">>
    /\ pc' = "first_call"
    /\ UNCHANGED pvars
    /\ UNCHANGED ovars
    /\ UNCHANGED <<abandoned, searches>>
    /\ UNCHANGED <<content_types, template_type, context, batch_idx,
                   all_days, window_log, faults, result>>

\* future.result ends for the window's running invocation: it returned, it
\* raised, or the wait timed out
Ended(att, how) == [att EXCEPT ![Len(att)] = how]

\* executor.shutdown(wait=False) after a timeout: the call stays on its
\* worker thread, which nothing joins
AbandonAndWait(ab, batch, call) == ab

Abandon(ab, batch, call) == ab \cup {[batch |-> batch, call |-> call]}

\* A finished window: the context its calls were given, how its generation
\* ended (outcome), its model invocations (attempts), the kind of JSON value
\* batch_result held (shape, "none" without a batch_result), whether the
\* batch left the try without an exception (resolved), whether the days
\* taken are the ones the schema asked for (faithful), the exception text
LogEntry(outcome, att, shape, resolved, faithful, reason) ==
    [day_start |-> invoke_inputs.day_start, day_end |-> invoke_inputs.day_end,
     context |-> invoke_inputs.context,
     outcome |-> outcome, attempts |-> att, shape |-> shape,
     resolved |-> resolved, faithful |-> faithful, reason |-> reason]

BatchFailedAsBreaks(outcome, att, shape, reason) ==
    /\ all_days' = all_days \o Placeholders(invoke_inputs.day_start,
                                           invoke_inputs.day_end, reason)
    /\ window_log' = Append(window_log,
            LogEntry(outcome, att, shape, FALSE, FALSE, reason))
    /\ batch_idx' = NumBatches
    /\ pc' = "window"

\* Lines 320-328: the except branch of the batch
BatchFailedAs(outcome, att, shape, reason) ==
    /\ all_days' = all_days \o Placeholders(invoke_inputs.day_start,
                                           invoke_inputs.day_end, reason)
    /\ window_log' = Append(window_log,
            LogEntry(outcome, att, shape, FALSE, FALSE, reason))
    /\ batch_idx' = batch_idx + 1
    /\ pc' = "window"

\* The except branch reached without a batch_result
BatchFailed(outcome, att, reason) == BatchFailedAs(outcome, att, "none", reason)

\* Lines 308-318, with the except branch for what they raise
TakeBatchResult(outcome, att, batch_result) ==
    LET x == ExtractDays(batch_result)
    IN  IF x.ok
        THEN /\ all_days' = all_days \o x.days
             /\ window_log' = Append(window_log,
                    LogEntry(outcome, att, batch_result.kind, TRUE,
                        x.days = FaithfulDays(invoke_inputs.day_schema), ""))
             /\ batch_idx' = batch_idx + 1
             /\ pc' = "window"
        ELSE BatchFailedAs(outcome, att, batch_result.kind, x.reason)

Nominal(v) == v = DaysDict(FaithfulDays(invoke_inputs.day_schema))

\* Lines 284-285: the first call returns a parsed result in time
FirstCallReturns ==
    /\ pc = "first_call"
    /\ \E v \in ModelResults(invoke_inputs.day_schema) :
         /\ Nominal(v) \/ faults < MaxFaults
         /\ faults' = IF Nominal(v) THEN faults ELSE faults + 1
         /\ TakeBatchResult("structured", Ended(attempts, "returned"), v)
    /\ attempts' = Ended(attempts, "returned")
    /\ UNCHANGED pvars
    /\ UNCHANGED ovars
    /\ UNCHANGED <<abandoned, searches>>
    /\ UNCHANGED <<content_types, template_type, context, invoke_inputs,
                   tmpl, result>>

FirstCallTimeoutFallsBack ==
    /\ pc = "first_call"
    /\ faults < MaxFaults
    /\ faults' = faults + 1
    /\ attempts' = Append(Ended(attempts, "timeout"), "pending")
    /\ abandoned' = Abandon(abandoned, batch_idx + 1, "first")
    /\ pc' = "fallback_call"
    /\ UNCHANGED pvars
    /\ UNCHANGED ovars
    /\ UNCHANGED searches
    /\ UNCHANGED <<content_types, template_type, context, batch_idx,
                   invoke_inputs, tmpl, all_days, window_log, result>>

\* Lines 286-288: the first call exceeds LLM_TIMEOUT
FirstCallTimeout ==
    /\ pc = "first_call"
    /\ faults < MaxFaults
    /\ faults' = faults + 1
    /\ BatchFailed("timeout", Ended(attempts, "timeout"),
                   "Batch " \o ToString(batch_idx + 1) \o " timed out.")
    /\ attempts' = Ended(attempts, "timeout")
    /\ abandoned' = Abandon(abandoned, batch_idx + 1, "first")
    /\ UNCHANGED pvars
    /\ UNCHANGED ovars
    /\ UNCHANGED searches
    /\ UNCHANGED <<content_types, template_type, context, invoke_inputs,
                   tmpl, result>>

FirstCallRaisesKeepsPending ==
    /\ pc = "first_call"
    /\ faults < MaxFaults
    /\ faults' = faults + 1
    /\ attempts' = Append(attempts, "pending")
    /\ pc' = "fallback_call"
    /\ UNCHANGED pvars
    /\ UNCHANGED ovars
    /\ UNCHANGED <<abandoned, searches>>
    /\ UNCHANGED <<content_types, template_type, context, batch_idx,
                   invoke_inputs, tmpl, all_days, window_log, result>>

\* Lines 289-293: the first call raises (the parser rejects the reply, or
\* the provider fails); the raw chain is submitted
FirstCallRaises ==
    /\ pc = "first_call"
    /\ faults < MaxFaults
    /\ faults' = faults + 1
    /\ attempts' = Append(Ended(attempts, "raised"), "pending")
    /\ pc' = "fallback_call"
    /\ UNCHANGED pvars
    /\ UNCHANGED ovars
    /\ UNCHANGED <<abandoned, searches>>
    /\ UNCHANGED <<content_types, template_type, context, batch_idx,
                   invoke_inputs, tmpl, all_days, window_log, result>>

\* Lines 294-306: the fallback returns a reply; _extract_json parses it or
\* raises ValueError
FallbackReturns ==
    /\ pc = "fallback_call"
    /\ \E raw \in ModelRawTexts(invoke_inputs.day_schema) :
         LET r == ExtractJson(raw)
         IN  IF r.ok
             THEN TakeBatchResult("fallback_reply", Ended(attempts, "returned"), r.v)
             ELSE BatchFailed("fallback_unparseable", Ended(attempts, "returned"),
                              "Could not parse model output as JSON")
    /\ attempts' = Ended(attempts, "returned")
    /\ UNCHANGED pvars
    /\ UNCHANGED ovars
    /\ UNCHANGED <<abandoned, searches>>
    /\ UNCHANGED <<content_types, template_type, context, invoke_inputs,
                   tmpl, faults, result>>

\* Lines 297-299: the fallback exceeds LLM_TIMEOUT
FallbackTimeout ==
    /\ pc = "fallback_call"
    /\ BatchFailed("fallback_timeout", Ended(attempts, "timeout"),
                   "Batch " \o ToString(batch_idx + 1) \o " fallback timed out.")
    /\ attempts' = Ended(attempts, "timeout")
    /\ abandoned' = Abandon(abandoned, batch_idx + 1, "fallback")
    /\ UNCHANGED pvars
    /\ UNCHANGED ovars
    /\ UNCHANGED searches
    /\ UNCHANGED <<content_types, template_type, context, invoke_inputs,
                   tmpl, faults, result>>

\* Line 295: the fallback raises; the exception reaches the batch's except
FallbackRaises ==
    /\ pc = "fallback_call"
    /\ BatchFailed("fallback_raises", Ended(attempts, "raised"), "provider error")
    /\ attempts' = Ended(attempts, "raised")
    /\ UNCHANGED pvars
    /\ UNCHANGED ovars
    /\ UNCHANGED <<abandoned, searches>>
    /\ UNCHANGED <<content_types, template_type, context, invoke_inputs,
                   tmpl, faults, result>>

ReturnConfiguredTotal ==
    /\ pc = "window"
    /\ batch_idx = NumBatches
    /\ result' = [template_type |-> template_type,
                  total_days |-> TOTAL_DAYS,
                  days |-> all_days]
    /\ pc' = "returned"
    /\ UNCHANGED pvars
    /\ UNCHANGED ovars
    /\ UNCHANGED <<attempts, abandoned, searches>>
    /\ UNCHANGED <<content_types, template_type, context, batch_idx,
                   invoke_inputs, tmpl, all_days, window_log, faults>>

\* Lines 330-336: the loop is over, the record is returned
Return ==
    /\ pc = "window"
    /\ batch_idx = NumBatches
    /\ result' = [template_type |-> template_type,
                  total_days |-> Len(all_days),
                  days |-> all_days]
    /\ pc' = "returned"
    /\ UNCHANGED pvars
    /\ UNCHANGED ovars
    /\ UNCHANGED <<attempts, abandoned, searches>>
    /\ UNCHANGED <<content_types, template_type, context, batch_idx,
                   invoke_inputs, tmpl, all_days, window_log, faults>>

AbandonedCallEndsWrites ==
    /\ \E c \in abandoned :
         /\ abandoned' = abandoned \ {c}
         /\ all_days' = all_days \o
                <<Entry(DayStart(c.batch - 1), "carousel", "")>>
    /\ UNCHANGED pvars
    /\ UNCHANGED ovars
    /\ UNCHANGED <<content_types, template_type, pc, context, batch_idx,
                   invoke_inputs, tmpl, window_log, faults, result,
                   attempts, searches>>

\* An abandoned call ends on its worker thread: the future's result goes
\* nowhere, generate_monthly holds no reference that reads it
AbandonedCallEnds ==
    /\ \E c \in abandoned : abandoned' = abandoned \ {c}
    /\ UNCHANGED pvars
    /\ UNCHANGED ovars
    /\ UNCHANGED <<content_types, template_type, pc, context, batch_idx,
                   invoke_inputs, tmpl, all_days, window_log, faults, result,
                   attempts, searches>>

MNext ==
    \/ AbandonedCallEnds
    \/ EntryInvalidTemplate
    \/ EntryRetrieve
    \/ WindowStartRaises
    \/ WindowStart
    \/ FirstCallReturns
    \/ FirstCallTimeout
    \/ FirstCallRaises
    \/ FallbackReturns
    \/ FallbackTimeout
    \/ FallbackRaises
    \/ Return

(***************************************************************************)
(* The five Sub-Agents                                                     *)
(***************************************************************************)
CompetitionDefault ==
    JDict({<<"competitors", "[]">>, <<"alternative_product", "''">>,
           <<"advantages", "''">>}, <<>>)

UsecaseDefault == JDict({<<"use_cases", "[]">>}, <<>>)

ObjectivesDefault == JDict({<<"objectives", "[]">>}, <<>>)

AudienceDefaultAsList == JDict({<<"target_users", "[]">>}, <<>>)

AudienceDefault == JDict({<<"target_users", "{}">>}, <<>>)

PositioningDefault == JDict({<<"positioning", "{}">>}, <<>>)

\* The keys each stage's prompt asks for
RequiredKeys(agent) ==
    CASE agent = "competition" -> {"competitors", "alternative_product", "advantages"}
      [] agent = "usecase" -> {"use_cases"}
      [] agent = "objectives" -> {"objectives"}
      [] agent = "audience" -> {"target_users"}
      [] agent = "positioning" -> {"positioning"}

\* _parse of a Sub-Agent: the parsed value, whatever JSON it is, or the
\* agent's default when neither pass parses
AgentParse(raw, default) ==
    LET cleaned == Cleaned(raw)
        direct == Loads(cleaned)
        m == BraceMatch(cleaned)
    IN  IF direct.ok THEN direct.v
        ELSE IF m.found /\ Loads(m.text).ok THEN Loads(m.text).v
        ELSE default

\* What chain.invoke hands back: it raises (provider error, or the client's
\* own timeout), or returns a message whose content is a text or is no text
\* at all (re.sub then raises TypeError inside run's try)
Raises == [kind |-> "raises", content |-> <<>>]

NotText == [kind |-> "not_text", content |-> <<>>]

Reply(raw) == [kind |-> "text", content |-> raw]

\* run of a Sub-Agent: try invoke and _parse, except Exception the default
AgentRunNoCatch(outcome, default) ==
    IF outcome.kind = "text" THEN AgentParse(outcome.content, default)
    ELSE NoJson

AgentRun(outcome, default) ==
    IF outcome.kind = "text" THEN AgentParse(outcome.content, default)
    ELSE default

\* How a generation ended: "raises", "not_text", or for a text reply whether
\* one of _parse's two passes parsed it ("parsed") or none did ("unparsed")
GenKind(outcome) ==
    IF outcome.kind # "text" THEN outcome.kind
    ELSE LET cleaned == Cleaned(outcome.content)
             m == BraceMatch(cleaned)
         IN  IF Loads(cleaned).ok \/ (m.found /\ Loads(m.text).ok)
             THEN "parsed" ELSE "unparsed"

CompetitionAgentRun(outcome) == AgentRun(outcome, CompetitionDefault)

UsecaseAgentRun(outcome) == AgentRun(outcome, UsecaseDefault)

ObjectivesAgentRun(outcome) == AgentRun(outcome, ObjectivesDefault)

AudienceAgentRun(outcome) == AgentRun(outcome, AudienceDefault)

PositioningAgentRun(outcome) == AgentRun(outcome, PositioningDefault)

\* The record a stage's prompt asks for, with every key filled
Filled(agent) ==
    CASE agent = "competition" ->
            JDict({<<"competitors", "list">>, <<"alternative_product", "str">>,
                   <<"advantages", "str">>}, <<>>)
      [] agent = "usecase" -> JDict({<<"use_cases", "list">>}, <<>>)
      [] agent = "objectives" -> JDict({<<"objectives", "list">>}, <<>>)
      [] agent = "audience" -> JDict({<<"target_users", "dict">>}, <<>>)
      [] agent = "positioning" -> JDict({<<"positioning", "dict">>}, <<>>)

\* JSON values a stage's model reply may hold: the record asked for, a
\* mapping without (all of) the keys asked for, a list
StageValues(agent) ==
    { Filled(agent),
      IF agent = "competition"
      THEN JDict({<<"competitors", "list">>}, <<>>) ELSE JDict({}, <<>>),
      JList(<<>>) }

StageOutcomes(agent) ==
    {Raises, NotText}
    \cup { Reply(raw) : raw \in UNION { RawForms(v) : v \in StageValues(agent) } }
    \cup { Reply(raw) : raw \in GarbageTexts }

(***************************************************************************)
(* CampaignOrchestrator                                                    *)
(***************************************************************************)
\* At most MaxSaveFailures of a run's add_texts calls raise
MaxSaveFailures == 1

StageOrderSwapped ==
    <<"competition", "objectives", "usecase", "audience", "positioning">>

\* The order in which run_pipeline invokes the Sub-Agents
StageOrder == <<"competition", "usecase", "objectives", "audience", "positioning">>

Agents == {StageOrder[i] : i \in 1..Len(StageOrder)}

\* _get_brand_context on the outcomes of vector_db.search
GetBrandContextBlankOnError(outcome) ==
    CASE outcome = "chunks" -> "chunks"
      [] outcome = "no_results" -> "No past context available."
      [] OTHER -> ""

GetBrandContext(outcome) ==
    CASE outcome = "chunks" -> "chunks"
      [] outcome = "no_results" -> "No past context available."
      [] outcome = "blank_texts" -> ""
      [] OTHER -> "Context retrieval failed."

\* str(x) of a stage output, and an argument the call does not take
PyStr(v) == [given |-> TRUE, of |-> v]

NoArg == [given |-> FALSE, of |-> NoJson]

\* The arguments run_pipeline passes to each Sub-Agent's run
StageCallLeaky(agent, sc, o) ==
    [agent |-> agent,
     context |-> sc,
     comp_context |-> PyStr(o["competition"]),
     usecase_context |-> PyStr(o["usecase"]),
     aud_context |-> PyStr(o["audience"]),
     completed |-> {a \in Agents : o[a] # NoJson}]

StageCall(agent, sc, o) ==
    [agent |-> agent,
     context |->
        IF agent \in {"competition", "usecase"} THEN sc ELSE "not passed",
     comp_context |->
        IF agent = "competition" THEN NoArg ELSE PyStr(o["competition"]),
     usecase_context |->
        IF agent \in {"objectives", "audience", "positioning"}
        THEN PyStr(o["usecase"]) ELSE NoArg,
     aud_context |->
        IF agent = "positioning" THEN PyStr(o["audience"]) ELSE NoArg,
     completed |-> {a \in Agents : o[a] # NoJson}]

\* The run of the agent a stage names
RunOf(agent, outcome) ==
    CASE agent = "competition" -> CompetitionAgentRun(outcome)
      [] agent = "usecase" -> UsecaseAgentRun(outcome)
      [] agent = "objectives" -> ObjectivesAgentRun(outcome)
      [] agent = "audience" -> AudienceAgentRun(outcome)
      [] agent = "positioning" -> PositioningAgentRun(outcome)

\* _save_to_memory: the document handed to vector_db.add_texts with its
\* metadata, and whether add_texts stored it (ok) or raised
SaveToMemoryUntagged(campaign_id, agent_type, data_str, ok) ==
    [agent |-> "agent_insight", campaign_id |-> campaign_id,
     data |-> data_str, stored |-> ok]

SaveToMemory(campaign_id, agent_type, data_str, ok) ==
    [agent |-> agent_type, campaign_id |-> campaign_id,
     data |-> data_str, stored |-> ok]

\* Lines 80-88: the merged record, by key; raises AttributeError when an
\* output has no .get (it is no mapping)
MergeRaises(o) == \E a \in Agents : o[a].kind # "dict"

AiBrain(o) ==
    { <<"competitors", GetTag(o["competition"], "competitors", "[]")>>,
      <<"alternative_product", GetTag(o["competition"], "alternative_product", "''")>>,
      <<"advantages", GetTag(o["competition"], "advantages", "''")>>,
      <<"use_cases", GetTag(o["usecase"], "use_cases", "[]")>>,
      <<"objectives", GetTag(o["objectives"], "objectives", "[]")>>,
      <<"target_users", GetTag(o["audience"], "target_users", "{}")>>,
      <<"positioning", GetTag(o["positioning"], "positioning", "{}")>> }

PInit ==
    /\ ppc = "start"
    /\ stage = 1
    /\ scraped_context = ""
    /\ outs = [a \in Agents |-> NoJson]
    /\ calls = <<>>
    /\ gen = [a \in Agents |-> "none"]
    /\ saves = <<>>
    /\ ai_brain = {}
    /\ psearches = <<>>

\* Line 58: the one retrieval
Retrieve ==
    /\ ppc = "start"
    /\ \E outcome \in SearchOutcomes :
         /\ scraped_context' = GetBrandContext(outcome)
         /\ psearches' = Append(psearches, outcome)
    /\ ppc' = "invoke"
    /\ UNCHANGED <<stage, outs, calls, gen, saves, ai_brain>>
    /\ UNCHANGED mvars
    /\ UNCHANGED ovars

\* Lines 61, 65, 69, 73, 77: the stage's Sub-Agent is called
StageInvoke ==
    /\ ppc = "invoke"
    /\ calls' = Append(calls, StageCall(StageOrder[stage], scraped_context, outs))
    /\ ppc' = "running"
    /\ UNCHANGED <<stage, scraped_context, outs, gen, saves, ai_brain, psearches>>
    /\ UNCHANGED mvars
    /\ UNCHANGED ovars

\* The Sub-Agent's run returns its StageOutput
StageReturn ==
    /\ ppc = "running"
    /\ \E outcome \in StageOutcomes(StageOrder[stage]) :
         /\ outs' = [outs EXCEPT ![StageOrder[stage]] = RunOf(StageOrder[stage], outcome)]
         /\ gen' = [gen EXCEPT ![StageOrder[stage]] = GenKind(outcome)]
    /\ ppc' = "persist"
    /\ UNCHANGED <<stage, scraped_context, calls, saves, ai_brain, psearches>>
    /\ UNCHANGED mvars
    /\ UNCHANGED ovars

\* The Sub-Agent's chain.invoke runs on run_pipeline's own thread and nothing
\* bounds the wait: a provider call that never returns leaves run inside
\* the call
StageHangs ==
    /\ ppc = "running"
    /\ gen' = [gen EXCEPT ![StageOrder[stage]] = "never_returns"]
    /\ ppc' = "hung"
    /\ UNCHANGED <<stage, scraped_context, outs, calls, saves, ai_brain, psearches>>
    /\ UNCHANGED mvars
    /\ UNCHANGED ovars

PersistPropagates ==
    /\ ppc = "persist"
    /\ \E ok \in BOOLEAN :
         /\ ok \/ Cardinality({i \in DOMAIN saves : ~saves[i].stored}) < MaxSaveFailures
         /\ saves' = Append(saves,
                SaveToMemory("campaign_id", StageOrder[stage],
                             PyStr(outs[StageOrder[stage]]), ok))
         /\ stage' = IF ok /\ stage < Len(StageOrder) THEN stage + 1 ELSE stage
         /\ ppc' = IF ~ok THEN "raised"
                   ELSE IF stage < Len(StageOrder) THEN "invoke" ELSE "merge"
    /\ UNCHANGED <<scraped_context, outs, calls, gen, ai_brain, psearches>>
    /\ UNCHANGED mvars
    /\ UNCHANGED ovars

\* Lines 62, 66, 70, 74, 78 and _save_to_memory: add_texts succeeds, or
\* raises and the exception is printed and dropped
Persist ==
    /\ ppc = "persist"
    /\ \E ok \in BOOLEAN :
         /\ ok \/ Cardinality({i \in DOMAIN saves : ~saves[i].stored}) < MaxSaveFailures
         /\ saves' = Append(saves,
                SaveToMemory("campaign_id", StageOrder[stage],
                             PyStr(outs[StageOrder[stage]]), ok))
    /\ stage' = IF stage < Len(StageOrder) THEN stage + 1 ELSE stage
    /\ ppc' = IF stage < Len(StageOrder) THEN "invoke" ELSE "merge"
    /\ UNCHANGED <<scraped_context, outs, calls, gen, ai_brain, psearches>>
    /\ UNCHANGED mvars
    /\ UNCHANGED ovars

\* Lines 80-91 when every output is a mapping
MergeReturns ==
    /\ ppc = "merge"
    /\ ~MergeRaises(outs)
    /\ ai_brain' = AiBrain(outs)
    /\ ppc' = "done"
    /\ UNCHANGED <<stage, scraped_context, outs, calls, gen, saves, psearches>>
    /\ UNCHANGED mvars
    /\ UNCHANGED ovars

\* Lines 80-88 when an output is no mapping: .get raises AttributeError
MergeRaisesError ==
    /\ ppc = "merge"
    /\ MergeRaises(outs)
    /\ ppc' = "raised"
    /\ UNCHANGED <<stage, scraped_context, outs, calls, gen, saves, ai_brain, psearches>>
    /\ UNCHANGED mvars
    /\ UNCHANGED ovars

PNext ==
    \/ Retrieve
    \/ StageInvoke
    \/ StageReturn
    \/ StageHangs
    \/ Persist
    \/ MergeReturns
    \/ MergeRaisesError

(***************************************************************************)
(* The Output Normalizer on its own: _extract_json and a Sub-Agent's       *)
(* _parse applied to a serialized record                                   *)
(***************************************************************************)
\* The characters of the string value a record holds: plain, with a single
\* backtick, with a fence marker, with a brace, none at all
NormStrings ==
    { <<>>, <<LETTER>>, <<LETTER, WS, LETTER>>, <<LETTER, TICK, LETTER>>,
      <<LETTER, FENCE, LETTER>>, <<FENCE_JSON, LETTER>>,
      <<LETTER, RBRACE, LETTER>>, <<LBRACE, LETTER>> }

NormRecords ==
    { JDictText(f, <<>>, t) :
        f \in { {}, {<<"competitors", "list">>},
                {<<"competitors", "list">>, <<"alternative_product", "str">>,
                 <<"advantages", "str">>} },
        t \in NormStrings }

DirectForms == {"plain", "fence", "fence_json"}

ProseForms == {"prose", "prose_fence"}

BracedProseForms == {"prose_brace_before", "prose_brace_after"}

\* The reply that carries the serialized record in a given form
Wrap(form, text) ==
    CASE form = "plain" -> text
      [] form = "fence" -> <<FENCE, WS>> \o text \o <<WS, FENCE>>
      [] form = "fence_json" -> <<FENCE_JSON, WS>> \o text \o <<WS, FENCE>>
      [] form = "prose" -> <<PROSE, WS>> \o text \o <<WS, PROSE>>
      [] form = "prose_fence" ->
            <<PROSE, WS, FENCE_JSON, WS>> \o text \o <<WS, FENCE, WS, PROSE>>
      [] form = "prose_brace_before" ->
            <<PROSE, LBRACE, PROSE, RBRACE, WS>> \o text \o <<WS, PROSE>>
      [] form = "prose_brace_after" ->
            <<PROSE, WS>> \o text \o <<WS, PROSE, RBRACE>>

NoOut == [ok |-> FALSE, v |-> NoJson]

NIdle ==
    /\ npc = "idle"
    /\ n_rec = NoJson
    /\ n_form = "plain"
    /\ n_raw = <<>>
    /\ n_out = NoOut
    /\ n_pass = "none"
    /\ n_parsed = NoJson

NInit ==
    /\ npc = "input"
    /\ n_rec \in NormRecords
    /\ n_form \in DirectForms \cup ProseForms \cup BracedProseForms
    /\ n_raw = Wrap(n_form, Dumps(n_rec))
    /\ n_out = NoOut
    /\ n_pass = "none"
    /\ n_parsed = NoJson

\* ContentAgent._extract_json(raw)
ExtractJsonCall ==
    /\ npc = "input"
    /\ n_out' = ExtractJson(n_raw)
    /\ n_pass' = ExtractPass(n_raw)
    /\ npc' = "extracted"
    /\ UNCHANGED <<n_rec, n_form, n_raw, n_parsed>>
    /\ UNCHANGED <<mvars, pvars, wvars, gvars>>

\* CompetitionAgent._parse(raw)
ParseCall ==
    /\ npc = "extracted"
    /\ n_parsed' = AgentParse(n_raw, CompetitionDefault)
    /\ npc' = "done"
    /\ UNCHANGED <<n_rec, n_form, n_raw, n_out, n_pass>>
    /\ UNCHANGED <<mvars, pvars, wvars, gvars>>

NNext == ExtractJsonCall \/ ParseCall

(***************************************************************************)
(* The window split of generate_monthly on its own, for other values of    *)
(* TOTAL_DAYS and DAYS_PER_BATCH than the module's                         *)
(***************************************************************************)
MaxTotalDays == 12

MaxBatchSize == 5

WIdle ==
    /\ wpc = "idle"
    /\ w_total = TOTAL_DAYS
    /\ w_size = DAYS_PER_BATCH
    /\ w_idx = 0
    /\ w_windows = <<>>

WInit ==
    /\ wpc = "loop"
    /\ w_total \in 1..MaxTotalDays
    /\ w_size \in 1..MaxBatchSize
    /\ w_idx = 0
    /\ w_windows = <<>>

\* Lines 244-246: one iteration of the loop over range(num_batches)
SplitStep ==
    /\ wpc = "loop"
    /\ w_idx < NumBatchesOf(w_total, w_size)
    /\ w_windows' = Append(w_windows,
            [day_start |-> DayStartOf(w_idx, w_size),
             day_end |-> DayEndOf(w_idx, w_total, w_size)])
    /\ w_idx' = w_idx + 1
    /\ UNCHANGED <<wpc, w_total, w_size>>
    /\ UNCHANGED <<mvars, pvars, nvars, gvars>>

\* The range is exhausted
SplitDone ==
    /\ wpc = "loop"
    /\ w_idx = NumBatchesOf(w_total, w_size)
    /\ wpc' = "done"
    /\ UNCHANGED <<w_total, w_size, w_idx, w_windows>>
    /\ UNCHANGED <<mvars, pvars, nvars, gvars>>

WNext == SplitStep \/ SplitDone

(***************************************************************************)
(* The orchestrator graph (src/app/agents/orchestrator.py) on one campaign *)
(* thread, driven by create_campaign and publish_campaign                  *)
(* (src/app/api/routes/campaign.py)                                        *)
(***************************************************************************)
MaxPublishRequests == 2

Requests == 1..MaxPublishRequests

\* The edges scrape -> generate -> publish -> END
Successor(node) ==
    CASE node = "scrape" -> "generate"
      [] node = "generate" -> "publish"
      [] node = "publish" -> "end"

\* compile(..., interrupt_before=["publish"])
InterruptBeforeNothing == {}

InterruptBefore == {"publish"}

\* generate_node: generate_monthly returns a calendar with days, or one
\* with an empty days list, or raises (an empty content_types list)
GenerateOutcomes == {"days", "no_days", "raises"}

\* publish_node: no days, the send succeeds, or it raises and is caught
PublishOutcomes(content) ==
    IF content # "days" THEN {"skipped"} ELSE {"success", "error"}

NodeOutcomes(node, content) ==
    CASE node = "scrape" -> {"ok"}
      [] node = "generate" -> GenerateOutcomes
      [] node = "publish" -> PublishOutcomes(content)

\* The checkpoint a run writes when a node ends: a node that raises leaves
\* the thread at that node
NextAfter(node, o) == IF o = "raises" THEN node ELSE Successor(node)

ContentAfter(node, o, content) ==
    IF node = "generate" /\ o # "raises" THEN o ELSE content

ResultAfter(node, o, res) == IF node = "publish" THEN o ELSE res

\* How a run goes on after a node: the exception leaves ainvoke, the graph
\* ended, it stops before an interrupt_before node, or it runs the next
AfterNode(node, o) ==
    IF o = "raises" THEN "failed"
    ELSE IF Successor(node) = "end" THEN "ended"
    ELSE IF Successor(node) \in InterruptBefore THEN "interrupted"
    ELSE "running"

NoRequest ==
    [pc |-> "new", approved |-> "none", at |-> "none", content |-> "none",
     res |-> "none", final |-> "none", stored |-> FALSE]

GIdle ==
    /\ cpc = "idle"
    /\ g_next = "none"
    /\ g_content = "none"
    /\ g_result = "none"
    /\ g_runs = <<>>
    /\ db_status = "none"
    /\ reqs = [r \in Requests |-> NoRequest]

GInit ==
    /\ cpc = "start"
    /\ g_next = "none"
    /\ g_content = "none"
    /\ g_result = "none"
    /\ g_runs = <<>>
    /\ db_status = "none"
    /\ reqs = [r \in Requests |-> NoRequest]

\* create_campaign, lines 63-99: the campaign row is inserted and the graph
\* is invoked with the initial state on the campaign's thread
CreateCampaign ==
    /\ cpc = "start"
    /\ \A r \in Requests : reqs[r].pc \in {"new", "rejected"}
    /\ db_status' = "generating"
    /\ g_next' = "scrape"
    /\ cpc' = "running"
    /\ UNCHANGED <<g_content, g_result, g_runs, reqs>>
    /\ UNCHANGED <<mvars, pvars, nvars, wvars>>

\* The invocation of create_campaign runs the thread's next node
CreateNodeRuns ==
    /\ cpc = "running"
    /\ \E o \in NodeOutcomes(g_next, g_content) :
         /\ g_runs' = Append(g_runs, [node |-> g_next, by |-> 0, outcome |-> o])
         /\ g_next' = NextAfter(g_next, o)
         /\ g_content' = ContentAfter(g_next, o, g_content)
         /\ g_result' = ResultAfter(g_next, o, g_result)
         /\ cpc' = AfterNode(g_next, o)
    /\ UNCHANGED <<db_status, reqs>>
    /\ UNCHANGED <<mvars, pvars, nvars, wvars>>

\* create_campaign, lines 101-122: ainvoke returned, the calendar is stored
CreateStores ==
    /\ cpc \in {"interrupted", "ended"}
    /\ db_status' = "completed"
    /\ cpc' = "returned"
    /\ UNCHANGED <<g_next, g_content, g_result, g_runs, reqs>>
    /\ UNCHANGED <<mvars, pvars, nvars, wvars>>

CreateOver == cpc \in {"start", "returned", "failed"}

\* publish_campaign, lines 195-197: the thread has no next node, HTTP 400
PublishRejected(r) ==
    /\ CreateOver
    /\ reqs[r].pc = "new"
    /\ g_next \in {"none", "end"}
    /\ reqs' = [reqs EXCEPT ![r].pc = "rejected"]
    /\ UNCHANGED <<cpc, g_next, g_content, g_result, g_runs, db_status>>
    /\ UNCHANGED <<mvars, pvars, nvars, wvars>>

\* publish_campaign, lines 195-197: the thread has a next node
PublishChecked(r) ==
    /\ CreateOver
    /\ reqs[r].pc = "new"
    /\ g_next \notin {"none", "end"}
    /\ \E a \in {"days", "no_days"} :
         reqs' = [reqs EXCEPT ![r].pc = "checked", ![r].approved = a]
    /\ UNCHANGED <<cpc, g_next, g_content, g_result, g_runs, db_status>>
    /\ UNCHANGED <<mvars, pvars, nvars, wvars>>

\* publish_campaign, lines 202-203: update_state writes the approved content
PublishUpdatesState(r) ==
    /\ reqs[r].pc = "checked"
    /\ g_content' = reqs[r].approved
    /\ reqs' = [reqs EXCEPT ![r].pc = "updated"]
    /\ UNCHANGED <<cpc, g_next, g_result, g_runs, db_status>>
    /\ UNCHANGED <<mvars, pvars, nvars, wvars>>

\* publish_campaign, line 207: ainvoke(None) loads the thread's checkpoint
\* and resumes at its next node; a thread that has ended has nothing to run
PublishResumes(r) ==
    /\ reqs[r].pc = "updated"
    /\ reqs' = [reqs EXCEPT
                    ![r].pc = IF g_next = "end" THEN "finished" ELSE "running",
                    ![r].at = g_next,
                    ![r].content = g_content,
                    ![r].res = g_result,
                    ![r].final = IF g_next = "end" THEN g_result ELSE "none"]
    /\ UNCHANGED <<cpc, g_next, g_content, g_result, g_runs, db_status>>
    /\ UNCHANGED <<mvars, pvars, nvars, wvars>>

\* The resumed invocation runs its next node on the state it loaded and
\* writes the checkpoint
PublishNodeRuns(r) ==
    /\ reqs[r].pc = "running"
    /\ LET node == reqs[r].at
       IN  \E o \in NodeOutcomes(node, reqs[r].content) :
             LET content == ContentAfter(node, o, reqs[r].content)
                 res == ResultAfter(node, o, reqs[r].res)
                 after == AfterNode(node, o)
             IN  /\ g_runs' = Append(g_runs, [node |-> node, by |-> r, outcome |-> o])
                 /\ g_next' = NextAfter(node, o)
                 /\ g_content' = content
                 /\ g_result' = res
                 /\ reqs' = [reqs EXCEPT
                        ![r].pc = CASE after = "failed" -> "failed"
                                    [] after = "running" -> "running"
                                    [] OTHER -> "finished",
                        ![r].at = NextAfter(node, o),
                        ![r].content = content,
                        ![r].res = res,
                        ![r].final = IF after \in {"ended", "interrupted"}
                                     THEN res ELSE "none"]
    /\ UNCHANGED <<cpc, db_status>>
    /\ UNCHANGED <<mvars, pvars, nvars, wvars>>

\* publish_campaign, lines 209-234: the status is set to published (a
\* database error is printed and dropped) and success is returned
PublishResponds(r) ==
    /\ reqs[r].pc = "finished"
    /\ \E ok \in BOOLEAN :
         /\ db_status' = IF ok THEN "published" ELSE db_status
         /\ reqs' = [reqs EXCEPT ![r].pc = "responded", ![r].stored = ok]
    /\ UNCHANGED <<cpc, g_next, g_content, g_result, g_runs>>
    /\ UNCHANGED <<mvars, pvars, nvars, wvars>>

GNext ==
    \/ CreateCampaign
    \/ CreateNodeRuns
    \/ CreateStores
    \/ \E r \in Requests :
          \/ PublishRejected(r)
          \/ PublishChecked(r)
          \/ PublishUpdatesState(r)
          \/ PublishResumes(r)
          \/ PublishNodeRuns(r)
          \/ PublishResponds(r)

OIdle == NIdle /\ WIdle /\ GIdle

\* generate_monthly alone: run_pipeline has not been called
InitMonthly == MInit /\ PInit /\ OIdle

SpecMonthly == InitMonthly /\ [][MNext]_vars

\* run_pipeline alone: generate_monthly has not been called
MIdle ==
    /\ content_types = <<"carousel", "video_script">>
    /\ template_type = "educational"
    /\ pc = "idle"
    /\ context = ""
    /\ batch_idx = 0
    /\ invoke_inputs = NoInputs
    /\ tmpl = NoTemplate
    /\ all_days = <<>>
    /\ window_log = <<>>
    /\ faults = 0
    /\ result = NoResult
    /\ attempts = <<>>
    /\ abandoned = {}
    /\ searches = <<>>

InitPipeline == MIdle /\ PInit /\ OIdle

SpecPipeline == InitPipeline /\ [][PNext]_vars

\* Either coordinator is called, the other is not
PIdle ==
    /\ ppc = "idle"
    /\ stage = 1
    /\ scraped_context = ""
    /\ outs = [a \in Agents |-> NoJson]
    /\ calls = <<>>
    /\ gen = [a \in Agents |-> "none"]
    /\ saves = <<>>
    /\ ai_brain = {}
    /\ psearches = <<>>

InitAgents == ((MInit /\ PIdle) \/ (MIdle /\ PInit)) /\ OIdle

NextAgents == MNext \/ PNext

SpecAgents == InitAgents /\ [][NextAgents]_vars

\* The campaign thread alone
InitGraph == MIdle /\ PIdle /\ NIdle /\ WIdle /\ GInit

SpecGraph == InitGraph /\ [][GNext]_vars

\* The window split alone
InitWindows == MIdle /\ PIdle /\ NIdle /\ WInit /\ GIdle

SpecWindows == InitWindows /\ [][WNext]_vars

\* The normalizer alone
InitNormalizer == MIdle /\ PIdle /\ NInit /\ WIdle /\ GIdle

SpecNormalizer == InitNormalizer /\ [][NNext]_vars

(***************************************************************************)
(* Claims about generate_monthly                                           *)
(***************************************************************************)

\* C1: whatever the windows' outcomes, the returned calendar has exactly
\* TOTAL_DAYS entries whose day values are exactly 1..TOTAL_DAYS, without
\* duplicates and without gaps.
C1_Complete ==
    pc = "returned" =>
        /\ Len(result.days) = TOTAL_DAYS
        /\ {result.days[i].day : i \in 1..Len(result.days)} = 1..TOTAL_DAYS

\* C2: a window that neither the structured path nor the raw-text path
\* resolves (a timeout of either call included) adds to the calendar exactly
\* one entry per day of the window, in day order, each with content_type
\* "error", the day's number and the failure reason, and nothing else.
C2_Unresolved ==
    {"timeout", "fallback_timeout", "fallback_raises", "fallback_unparseable"}

C2_FailedWindowPlaceholders ==
    [][ (pc \in {"first_call", "fallback_call"} /\ pc' = "window"
            /\ window_log'[Len(window_log')].outcome \in C2_Unresolved)
        => LET w == window_log'[Len(window_log')]
           IN  /\ w.reason # ""
               /\ Len(all_days') = Len(all_days) + (w.day_end - w.day_start + 1)
               /\ SubSeq(all_days', 1, Len(all_days)) = all_days
               /\ \A d \in w.day_start..w.day_end :
                    all_days'[Len(all_days) + (d - w.day_start + 1)] =
                        [day |-> d, content_type |-> "error", error |-> w.reason]
      ]_vars

C2_Witness ==
    /\ pc = "returned"
    /\ \E i, j \in DOMAIN window_log :
         /\ window_log[i].outcome = "timeout"
         /\ window_log[j].outcome = "fallback_unparseable"

\* Every window's generation returned the day records its schema asked for
AllWindowsFaithful ==
    /\ Len(window_log) = NumBatches
    /\ \A i \in DOMAIN window_log : window_log[i].resolved /\ window_log[i].faithful

\* requested_types[(d-1) mod k], written 1-based
CycledType(d) == content_types[((d - 1) % Len(content_types)) + 1]

\* C3 as stated: when all windows succeed, the entry for day d carries
\* content_type requested_types[(d-1) mod k].
C3_RequestedType ==
    (pc = "returned" /\ AllWindowsFaithful) =>
        \A i \in 1..Len(result.days) :
            result.days[i].content_type = CycledType(result.days[i].day)

\* The content_type the day schema names for a requested type
SchemaTypeOf(ct) == IF ct \in {"carousel", "video_script"} THEN ct ELSE "canonical_post"

\* C3 amended: when every window's generation returns the day records its
\* schema asks for, the entry for day d carries the schema's content_type for
\* requested_types[(d-1) mod k]: that type itself for carousel and
\* video_script, canonical_post for image and any other type.
C3_SchemaType ==
    (pc = "returned" /\ AllWindowsFaithful) =>
        /\ Len(result.days) = TOTAL_DAYS
        /\ \A i \in 1..Len(result.days) :
             /\ result.days[i].day = i
             /\ result.days[i].content_type = SchemaTypeOf(CycledType(i))

C3_Witness ==
    /\ pc = "returned"
    /\ AllWindowsFaithful
    /\ content_types = <<"image", "carousel", "video_script">>
    /\ result.days[TOTAL_DAYS].content_type = "video_script"

\* C4: for every day d of every window, the type in generate_monthly's
\* day-assignment line and the type get_monthly_template assigns (in its own
\* assignment line, and as the type its schema fragment is built for) are
\* both requested_types[(d-1) mod k].
C4_CyclingAgrees ==
    pc \in {"first_call", "fallback_call"} =>
        LET ds == batch_idx * DAYS_PER_BATCH + 1
            n == Len(invoke_inputs.day_assignments)
        IN  /\ n = invoke_inputs.day_end - ds + 1
            /\ n >= 1
            /\ Len(tmpl.day_assignments) = n
            /\ Len(invoke_inputs.day_schema) = n
            /\ \A i \in 1..n :
                 /\ invoke_inputs.day_assignments[i] =
                        [day |-> ds + i - 1, ct |-> CycledType(ds + i - 1)]
                 /\ tmpl.day_assignments[i] = invoke_inputs.day_assignments[i]
                 /\ invoke_inputs.day_schema[i] =
                        [day |-> ds + i - 1,
                         content_type |-> SchemaTypeOf(CycledType(ds + i - 1))]

C4_Witness ==
    /\ pc = "first_call"
    /\ batch_idx = NumBatches - 1
    /\ Len(content_types) = 3
    /\ invoke_inputs.day_assignments[DAYS_PER_BATCH] =
            [day |-> TOTAL_DAYS, ct |-> "video_script"]

(***************************************************************************)
(* Claims about run_pipeline and the Sub-Agents                            *)
(***************************************************************************)

\* C5: the Sub-Agents are invoked in the order competition, usecase,
\* objectives, audience, positioning, each once, each only after every
\* earlier stage has returned and none of the later ones has; the merge is
\* reached only after all five, whatever the stages' outcomes.
C5_Order == <<"competition", "usecase", "objectives", "audience", "positioning">>

C5_StrictSequence ==
    /\ Len(calls) <= 5
    /\ \A i \in 1..Len(calls) :
         /\ calls[i].agent = C5_Order[i]
         /\ calls[i].completed = {C5_Order[j] : j \in 1..(i - 1)}
    /\ ppc = "running" => outs[C5_Order[Len(calls)]] = NoJson
    /\ ppc \in {"merge", "done", "raised"} =>
         /\ Len(calls) = 5
         /\ \A a \in Agents : outs[a] # NoJson

C5_Witness ==
    /\ ppc = "done"
    /\ Len(calls) = 5
    /\ gen["competition"] = "raises"
    /\ outs["usecase"] = Filled("usecase")

\* C6: each stage is handed only the serialized outputs of stages that have
\* completed, in a fixed subset: usecase competition; objectives and
\* audience competition and usecase; positioning competition, usecase and
\* audience; never its own or a later stage's output.
C6_ContextThreading ==
    \A i \in 1..Len(calls) :
        LET c == calls[i]
        IN  /\ c.comp_context =
                 IF i >= 2 THEN [given |-> TRUE, of |-> outs["competition"]]
                 ELSE [given |-> FALSE, of |-> NoJson]
            /\ c.usecase_context =
                 IF i >= 3 THEN [given |-> TRUE, of |-> outs["usecase"]]
                 ELSE [given |-> FALSE, of |-> NoJson]
            /\ c.aud_context =
                 IF i = 5 THEN [given |-> TRUE, of |-> outs["audience"]]
                 ELSE [given |-> FALSE, of |-> NoJson]
            /\ c.comp_context.given => "competition" \in c.completed
            /\ c.usecase_context.given => "usecase" \in c.completed
            /\ c.aud_context.given => "audience" \in c.completed

C6_Witness ==
    /\ Len(calls) = 5
    /\ calls[5].aud_context = [given |-> TRUE, of |-> Filled("audience")]
    /\ calls[3].usecase_context = [given |-> TRUE, of |-> UsecaseDefault]

\* The default StageOutput of each stage, as the claim lists them
C7_Default(a) ==
    CASE a = "competition" ->
            [kind |-> "dict", days |-> <<>>, text |-> <<>>,
             fields |-> {<<"competitors", "[]">>, <<"alternative_product", "''">>,
                         <<"advantages", "''">>}]
      [] a = "usecase" ->
            [kind |-> "dict", days |-> <<>>, text |-> <<>>, fields |-> {<<"use_cases", "[]">>}]
      [] a = "objectives" ->
            [kind |-> "dict", days |-> <<>>, text |-> <<>>, fields |-> {<<"objectives", "[]">>}]
      [] a = "audience" ->
            [kind |-> "dict", days |-> <<>>, text |-> <<>>, fields |-> {<<"target_users", "{}">>}]
      [] a = "positioning" ->
            [kind |-> "dict", days |-> <<>>, text |-> <<>>, fields |-> {<<"positioning", "{}">>}]

\* C7: for each of the five Sub-Agents, when the generation call raises
\* (a provider error, or the client's timeout), run returns the stage's
\* default mapping with every required key.
C7_RaiseGivesDefault ==
    \A a \in Agents : gen[a] = "raises" => outs[a] = C7_Default(a)

C7_Witness ==
    /\ \A a \in Agents : gen[a] = "raises"
    /\ ppc = "merge"

\* C8: if every Sub-Agent fails soft, run_pipeline returns (does not raise)
\* the merged record with exactly the seven keys, each at its default.
C8_AllFailed == \A a \in Agents : gen[a] \in {"raises", "not_text", "unparsed"}

C8_AllSoftFailures ==
    /\ ppc = "raised" => ~C8_AllFailed
    /\ (ppc = "done" /\ C8_AllFailed) =>
          ai_brain = { <<"competitors", "[]">>, <<"alternative_product", "''">>,
                       <<"advantages", "''">>, <<"use_cases", "[]">>,
                       <<"objectives", "[]">>, <<"target_users", "{}">>,
                       <<"positioning", "{}">> }

C8_Witness ==
    /\ ppc = "done"
    /\ C8_AllFailed
    /\ gen["competition"] = "raises"
    /\ gen["usecase"] = "unparsed"
    /\ gen["objectives"] = "not_text"

\* C9: whatever each stage's generation hands back, and whether or not
\* retrieval or persistence fail, run_pipeline never raises.
C9_NeverRaises == ppc # "raised"

\* C10: every StageOutput a Sub-Agent's run returns is a mapping that holds
\* every required key of its stage.
C10_RequiredKeys ==
    \A a \in Agents :
        outs[a] # NoJson =>
            /\ outs[a].kind = "dict"
            /\ \A k \in RequiredKeys(a) : HasKey(outs[a], k)

\* C11 as stated: generate_monthly invokes the model exactly once per
\* window; whatever the outcome, no window sees a second invocation.
C11_OneInvocationPerWindow ==
    /\ Len(attempts) <= 1
    /\ \A i \in 1..Len(window_log) : Len(window_log[i].attempts) = 1

\* C11 amended: every window invokes the model once through the structured
\* chain, and invokes it a second time, through the raw chain, exactly when
\* the first invocation raised an exception other than the timeout; there
\* is no second invocation after a timeout or a returned result, and never
\* a third.
C11_SecondOnlyAfterRaise ==
    /\ pc = "first_call" => attempts = <<"pending">>
    /\ pc = "fallback_call" => attempts = <<"raised", "pending">>
    /\ \A i \in 1..Len(window_log) :
          LET a == window_log[i].attempts
          IN  /\ Len(a) \in {1, 2}
              /\ a[Len(a)] \in {"returned", "raised", "timeout"}
              /\ Len(a) = 2 <=> a[1] = "raised"

C11_Witness ==
    \E i \in 1..Len(window_log) :
        /\ window_log[i].attempts = <<"raised", "returned">>
        /\ window_log[i].resolved
        /\ \E j \in 1..Len(window_log) : window_log[j].attempts = <<"timeout">>

\* C12: a window whose result is a bare list of day records has that list
\* taken as its days: the records are appended to the calendar and the
\* window gets no error placeholders.
C12_BareListTaken ==
    \A i \in 1..Len(window_log) :
        window_log[i].shape = "list" => window_log[i].resolved

Sorted(days) ==
    \A i \in 1..Len(days) : \A j \in i..Len(days) : days[i].day <= days[j].day

\* C13: the returned days are sorted ascending by day, total_days is the
\* number of entries and template_type the requested one, whatever the
\* windows' outcomes and whatever order a window's generation lists its
\* days in.
C13_SortedWithCount ==
    pc = "returned" =>
        /\ Sorted(result.days)
        /\ result.total_days = Len(result.days)
        /\ result.template_type = template_type

CallIndex(call) == IF call = "first" THEN 1 ELSE 2

LastLogged == window_log'[Len(window_log')]

\* C14: when the wait on a window's call times out, generate_monthly does
\* not wait for the worker: in that same step the call is left running,
\* the window's error placeholders are recorded and the loop stands at the
\* next window.
C14_TimeoutAbandons ==
    [][(/\ Len(window_log') = Len(window_log) + 1
        /\ LastLogged.attempts[Len(LastLogged.attempts)] = "timeout")
       => /\ [batch |-> batch_idx + 1,
              call |-> IF Len(LastLogged.attempts) = 1 THEN "first" ELSE "fallback"]
                 \in abandoned'
          /\ all_days' = all_days \o Placeholders(DayStart(batch_idx),
                                       DayEnd(batch_idx), LastLogged.reason)
          /\ batch_idx' = batch_idx + 1
          /\ pc' = "window"]_vars

C14_Witness ==
    /\ pc = "returned"
    /\ [batch |-> 1, call |-> "first"] \in abandoned
    /\ window_log[1].attempts = <<"timeout">>
    /\ window_log[NumBatches].resolved

\* The calls of generate_monthly that are executing: the abandoned ones and
\* the window's pending invocation
CallsRunning ==
    abandoned \cup
        {[batch |-> batch_idx + 1, call |-> IF k = 1 THEN "first" ELSE "fallback"] :
            k \in {i \in 1..Len(attempts) : attempts[i] = "pending"}}

\* The Sub-Agent calls of run_pipeline that were made and have not returned
StageCallsRunning ==
    {calls[i].agent : i \in {j \in 1..Len(calls) : outs[calls[j].agent] = NoJson}}

\* C15 as stated: during a run of generate_monthly or run_pipeline at most
\* one generation call is executing at any moment.
C15_OneOutstanding ==
    Cardinality(CallsRunning) + Cardinality(StageCallsRunning) <= 1

\* C15 amended: at any moment a run waits on at most one generation call,
\* and a call that is executing without being waited on is one of
\* generate_monthly's whose wait timed out; run_pipeline never has more than
\* one call executing.
C15_OneAwaited ==
    /\ Cardinality(CallsRunning \ abandoned) <= 1
    /\ \A c \in abandoned :
          /\ c.batch <= Len(window_log)
          /\ CallIndex(c.call) = Len(window_log[c.batch].attempts)
          /\ window_log[c.batch].attempts[CallIndex(c.call)] = "timeout"
    /\ Cardinality(StageCallsRunning) <= 1

C15_Witness ==
    /\ pc = "fallback_call"
    /\ batch_idx = 1
    /\ CallsRunning = {[batch |-> 1, call |-> "first"], [batch |-> 2, call |-> "fallback"]}

\* C16: a Sub-Agent whose provider call never returns still yields its
\* stage's default once the deadline passes, so run_pipeline can go on
\* towards Done.
C16_HungStageGoesOn ==
    \A a \in Agents : gen[a] = "never_returns" => ENABLED PNext

Returned == {a \in Agents : outs[a] # NoJson}

\* C17: after each stage returns and before the next is called, exactly one
\* persist of the stage's str() output is attempted, tagged with the
\* stage's name and the campaign id; the persists follow the stage order,
\* a full run makes five, and no output is persisted before its stage
\* returned.
C17_OnePersistPerStage ==
    /\ Len(saves) <= Len(C5_Order)
    /\ \A i \in 1..Len(saves) :
          /\ saves[i].agent = C5_Order[i]
          /\ saves[i].campaign_id = "campaign_id"
          /\ C5_Order[i] \in Returned
          /\ saves[i].data = PyStr(outs[C5_Order[i]])
    /\ Len(saves) = IF ppc = "persist" THEN Cardinality(Returned) - 1
                    ELSE Cardinality(Returned)
    /\ Len(calls) \in {Len(saves), Len(saves) + 1}
    /\ ppc = "invoke" => Len(calls) = Len(saves)
    /\ ppc \in {"merge", "done", "raised"} => Len(saves) = Len(C5_Order)

C17_Witness ==
    /\ ppc = "done"
    /\ Len(saves) = Len(C5_Order)
    /\ saves[Len(saves)].agent = "positioning"
    /\ gen["positioning"] = "parsed"

\* C18: a persist that fails is swallowed: the run stands where it stands
\* after a persist that succeeds, nothing but the persist log changes, the
\* next stage is called with the arguments the outputs and the context
\* give, and the merged record is the one the outputs give.
C18_PersistFailureSwallowed ==
    [][/\ (Len(saves') > Len(saves) /\ ~saves'[Len(saves')].stored) =>
            /\ ppc' = IF stage < Len(C5_Order) THEN "invoke" ELSE "merge"
            /\ stage' = IF stage < Len(C5_Order) THEN stage + 1 ELSE stage
            /\ UNCHANGED <<scraped_context, outs, calls, gen, ai_brain>>
       /\ Len(calls') > Len(calls) =>
            calls'[Len(calls')] = StageCall(C5_Order[stage], scraped_context, outs)
       /\ (ppc = "merge" /\ ppc' = "done") => ai_brain' = AiBrain(outs)]_vars

C18_Witness ==
    /\ ppc = "done"
    /\ ~saves[1].stored
    /\ Len(calls) = Len(C5_Order)
    /\ \A a \in Agents : gen[a] = "parsed"

\* C19: each coordinator retrieves exactly once, before its first stage or
\* window; every stage that takes the context, and every window, is handed
\* that one retrieved context, whatever was persisted in between.
C19_OneRetrieval ==
    /\ Len(psearches) = IF ppc \in {"idle", "start"} THEN 0 ELSE 1
    /\ calls # <<>> => scraped_context = GetBrandContext(psearches[1])
    /\ \A i \in 1..Len(calls) :
          calls[i].agent \in {"competition", "usecase"} =>
              calls[i].context = scraped_context
    /\ Len(searches) <= 1
    /\ (pc \in {"window", "first_call", "fallback_call", "returned"}) =>
          /\ Len(searches) = 1
          /\ context = GetContext(searches[1])
    /\ pc \in {"first_call", "fallback_call"} => invoke_inputs.context = context
    /\ \A i \in 1..Len(window_log) : window_log[i].context = context

C19_Witness ==
    /\ ppc = "done"
    /\ psearches = <<"chunks">>
    /\ calls[2].context = "chunks"
    /\ \E i \in 1..Len(saves) : saves[i].stored

\* C20: a retrieval that raises does not propagate: _get_context and
\* _get_brand_context return their non-empty diagnostic text, and the
\* stages and the windows all still run with that text as context.
C20_RetrievalFailureContained ==
    /\ psearches = <<"raises">> =>
          /\ scraped_context = "Context retrieval failed."
          /\ scraped_context # ""
          /\ \A i \in 1..Len(calls) :
                calls[i].agent \in {"competition", "usecase"} =>
                    calls[i].context = "Context retrieval failed."
          /\ ppc \in {"merge", "done", "raised"} => Len(calls) = Len(C5_Order)
    /\ searches = <<"raises">> =>
          /\ context = "Context retrieval failed - generating without past content."
          /\ context # ""
          /\ pc = "raised" => Len(content_types) = 0
          /\ \A i \in 1..Len(window_log) : window_log[i].context = context
          /\ pc = "returned" => Len(window_log) = NumBatches

C20_Witness ==
    /\ searches = <<"raises">>
    /\ pc = "returned"
    /\ Len(window_log) = NumBatches

(***************************************************************************)
(* Claims about the Output Normalizer                                      *)
(***************************************************************************)

\* C21: a record serialized to JSON text, as it is or wrapped in a code
\* fence, comes back from _extract_json equal to itself, also when a string
\* value of the record holds backticks or fence markers.
C21_RoundTrip ==
    (npc \in {"extracted", "done"} /\ n_form \in DirectForms) =>
        n_out = [ok |-> TRUE, v |-> n_rec]

\* C22 as stated: from a reply that embeds one serialized object in prose,
\* _extract_json and _parse return that object.
C22_EmbeddedObjectParsed ==
    (npc = "done" /\ n_form \in ProseForms \cup BracedProseForms) =>
        /\ n_out = [ok |-> TRUE, v |-> n_rec]
        /\ n_parsed = n_rec

NotFence(c) == c \notin {FENCE, FENCE_JSON}

\* The record as the cleaning of the reply leaves it
AsCleaned(rec) == [rec EXCEPT !.text = SelectSeq(rec.text, NotFence)]

\* C22 amended: the direct parse is tried first and parses a reply that is
\* the object alone; for an object embedded in prose the second pass parses
\* the cleaned text from its first opening to its last closing brace: with
\* no opening brace in the prose before the object and no closing brace in
\* the prose after it, both functions return the object as the cleaning
\* left it; with such a brace, _extract_json raises and _parse returns the
\* stage default.
C22_BraceSpanParsed ==
    npc = "done" =>
        /\ n_form \in DirectForms => n_pass = "direct"
        /\ n_form \in ProseForms =>
              /\ n_pass = "brace"
              /\ n_out = [ok |-> TRUE, v |-> AsCleaned(n_rec)]
              /\ n_parsed = AsCleaned(n_rec)
        /\ n_form \in BracedProseForms =>
              /\ n_pass = "none"
              /\ ~n_out.ok
              /\ n_parsed = CompetitionDefault

C22_Witness ==
    /\ npc = "done"
    /\ n_form = "prose"
    /\ n_rec.text = <<LETTER, RBRACE, LETTER>>
    /\ n_rec.fields # {}
    /\ n_parsed = n_rec

(***************************************************************************)
(* Claims about the windows of generate_monthly                            *)
(***************************************************************************)
WindowDays(w) == w.day_start .. w.day_end

\* C23: the loop makes exactly ceil(total_days / batch_size) windows,
\* window i (0-based) being [i*batch_size + 1, min((i+1)*batch_size,
\* total_days)]: non-empty, at most batch_size long, contiguous, pairwise
\* disjoint, and with union 1..total_days.
C23_WindowSplit ==
    LET n == Len(w_windows)
    IN  /\ \A i \in 1..n :
              /\ w_windows[i].day_start = (i - 1) * w_size + 1
              /\ w_windows[i].day_end = Min(i * w_size, w_total)
              /\ WindowDays(w_windows[i]) # {}
              /\ Cardinality(WindowDays(w_windows[i])) <= w_size
        /\ \A i \in 1..n : \A j \in 1..n :
              i # j => WindowDays(w_windows[i]) \cap WindowDays(w_windows[j]) = {}
        /\ \A i \in 1..(n - 1) :
              w_windows[i + 1].day_start = w_windows[i].day_end + 1
        /\ wpc = "done" =>
              /\ n * w_size >= w_total
              /\ (n - 1) * w_size < w_total
              /\ UNION {WindowDays(w_windows[i]) : i \in 1..n} = 1..w_total

C23_Witness ==
    /\ wpc = "done"
    /\ w_size > 1
    /\ w_total % w_size # 0
    /\ Len(w_windows) > 2
    /\ Cardinality(WindowDays(w_windows[Len(w_windows)])) < w_size

\* C24: the windows are processed one after the other in ascending order;
\* a window that fails is contained: every step leaves the entries already
\* accumulated in place, every later window is still attempted, once, and
\* a run that returns has attempted them all.
C24_SequentialContained ==
    [][/\ Len(all_days') >= Len(all_days)
       /\ SubSeq(all_days', 1, Len(all_days)) = all_days
       /\ Len(window_log') >= Len(window_log)
       /\ SubSeq(window_log', 1, Len(window_log)) = window_log
       /\ \A i \in 1..Len(window_log') :
              /\ window_log'[i].day_start = DayStart(i - 1)
              /\ window_log'[i].day_end = DayEnd(i - 1)
       /\ pc' \in {"first_call", "fallback_call"} =>
              /\ invoke_inputs'.day_start = DayStart(Len(window_log'))
              /\ batch_idx' = Len(window_log')
       /\ pc' = "returned" => Len(window_log') = NumBatches]_vars

C24_Witness ==
    /\ pc = "returned"
    /\ ~window_log[2].resolved
    /\ window_log[1].resolved
    /\ \A i \in 3..NumBatches : window_log[i].resolved
    /\ Len(window_log) = NumBatches

TimedOut(w) == w.attempts[Len(w.attempts)] = "timeout"

\* C25: an abandoned call that ends later changes nothing of the calendar
\* or of the returned record, and the returned record holds the error
\* placeholders of every window that timed out.
C25_CalendarOwnedByCoordinator ==
    [][/\ (abandoned' # abandoned /\ abandoned' \subseteq abandoned) =>
              UNCHANGED <<all_days, window_log, result, pc, batch_idx>>
       /\ pc' = "returned" =>
              \A i \in 1..Len(window_log') :
                  TimedOut(window_log'[i]) =>
                      \A d \in WindowDays(window_log'[i]) :
                          \E k \in 1..Len(result'.days) :
                              result'.days[k] =
                                  Entry(d, "error", window_log'[i].reason)]_vars

C25_Witness ==
    /\ pc = "returned"
    /\ abandoned = {}
    /\ TimedOut(window_log[1])
    /\ TimedOut(window_log[NumBatches])
    /\ result.days[1] = Entry(1, "error", "Batch 1 timed out.")

\* C29: total_days of the returned record is the number of entries of its
\* days list, whatever the windows' outcomes.
C29_TotalIsLength ==
    pc = "returned" =>
        /\ result.days = all_days
        /\ result.total_days = Len(all_days)

C29_Witness ==
    /\ pc = "returned"
    /\ result.total_days < TOTAL_DAYS
    /\ result.total_days = Len(result.days)

InvalidInput == template_type \notin VALID_TEMPLATE_TYPES \/ Len(content_types) = 0

\* C30: an invalid template_type raises before the retrieval, an empty
\* content-type list raises at the first window's day assignment; either
\* way no generation call is made, no placeholder is recorded and no
\* calendar is returned.
C30_InputErrorsRaise ==
    /\ template_type \notin VALID_TEMPLATE_TYPES =>
          /\ pc \in {"entry", "raised"}
          /\ searches = <<>>
    /\ (template_type \in VALID_TEMPLATE_TYPES /\ Len(content_types) = 0) =>
          /\ pc \in {"entry", "window", "raised"}
          /\ batch_idx = 0
          /\ pc = "raised" => Len(searches) = 1
    /\ InvalidInput =>
          /\ attempts = <<>>
          /\ abandoned = {}
          /\ window_log = <<>>
          /\ all_days = <<>>
          /\ result = NoResult
    /\ pc = "raised" => InvalidInput

C30_Witness ==
    /\ pc = "raised"
    /\ template_type \in VALID_TEMPLATE_TYPES
    /\ Len(content_types) = 0
    /\ Len(searches) = 1

(***************************************************************************)
(* Claims about the orchestrator graph                                     *)
(***************************************************************************)
PublishRuns == {i \in 1..Len(g_runs) : g_runs[i].node = "publish"}

C27_PublishAtMostOnce ==
    /\ Cardinality(PublishRuns) <= 1
    /\ \A r \in Requests :
          reqs[r].pc = "rejected" => (reqs[r].at = "none" /\ ~reqs[r].stored)

\* C28: a request that answered success and recorded the status published
\* holds a publish_result whose status is success.
C28_PublishedMeansSent ==
    \A r \in Requests :
        (reqs[r].pc = "responded" /\ reqs[r].stored) => reqs[r].final = "success"

====
